---- MODULE Spec2Model ----
(***************************************************************************)
(* A model of the weewx-tfrc driver (bin/user/tfrc.py): the stdout reader  *)
(* and its queue, the telegram framer ProcManager.get_stdout, the packet   *)
(* parsers behind PacketFactory, the field mapper, the delta engine and    *)
(* the generator TFRCDriver.genLoopPackets.                                *)
(*                                                                         *)
(* Python strings that the code splits, globs or upper-cases are sequences *)
(* of one-character strings.  Python's None is the empty sequence; a       *)
(* number n held in a dict is the one-element sequence <<n>>, so that a    *)
(* dict value is always a sequence and None differs from every number.     *)
(* A dict is a function whose DOMAIN is its key set.                       *)
(***************************************************************************)
EXTENDS Integers, Sequences, FiniteSets, TLC

\* ------------------------------------------------------------------ values

None == <<>>

Num(n) == <<n>>

IsNone(v) == v = None

Val(v) == v[1]

EmptyDict == [k \in {} |-> None]

Range(s) == {s[i] : i \in 1..Len(s)}

\* ------------------------------------------------------------------ names

dateTime == <<"d","a","t","e","T","i","m","e">>

usUnits == <<"u","s","U","n","i","t","s">>

hardware_id == <<"h","a","r","d","w","a","r","e","_","i","d">>

temperature == <<"t","e","m","p","e","r","a","t","u","r","e">>

humidity == <<"h","u","m","i","d","i","t","y">>

lowbat == <<"l","o","w","b","a","t">>

rssi == <<"r","s","s","i">>

TFA_1Packet_name == <<"T","F","A","_","1","P","a","c","k","e","t">>

temp3 == <<"t","e","m","p","3">>

humidity3 == <<"h","u","m","i","d","i","t","y","3">>

rain == <<"r","a","i","n">>

rain_total == <<"r","a","i","n","_","t","o","t","a","l">>

strikes == <<"s","t","r","i","k","e","s">>

strikes_total == <<"s","t","r","i","k","e","s","_","t","o","t","a","l">>

\* weewx.METRIC, the unit-system tag the parser stores
METRIC == 16

\* ------------------------------------------------------------------ strings

\* str.split('.'): the parts between the dots, one more part than dots
split(s) ==
    LET dots   == {i \in 1..Len(s) : s[i] = "."}
        cut(j) == IF j = 0 THEN 0
                  ELSE IF j > Cardinality(dots) THEN Len(s) + 1
                  ELSE CHOOSE i \in dots : Cardinality({d \in dots : d < i}) = j - 1
    IN  [j \in 1..(Cardinality(dots) + 1) |-> SubSeq(s, cut(j - 1) + 1, cut(j) - 1)]

\* "%s.%s.%s" % (n, sensor_id, packet_type)
Qualified(n, sensor_id, packet_type) ==
    n \o <<".">> \o sensor_id \o <<".">> \o packet_type

\* str.upper() on the characters a hardware id can hold
UpperChar(c) ==
    CASE c = "a" -> "A" [] c = "b" -> "B" [] c = "c" -> "C"
      [] c = "d" -> "D" [] c = "e" -> "E" [] c = "f" -> "F"
      [] OTHER -> c

upper(s) == [i \in 1..Len(s) |-> UpperChar(s[i])]

\* fnmatch.translate + re.match: '*' any run, '?' one character, '[seq]' one
\* character of seq ('[!seq]' one not of seq; a '[' with no closing ']' is a
\* literal).  The patterns of the model use no ranges inside brackets.
RECURSIVE ClassEnd(_, _)
ClassEnd(pat, j) ==
    IF j > Len(pat) THEN 0
    ELSE IF pat[j] = "]" THEN j
    ELSE ClassEnd(pat, j + 1)

\* pat from position p on matches val from position v on
RECURSIVE MatchFrom(_, _, _, _)
MatchFrom(pat, p, val, v) ==
    IF p > Len(pat) THEN v > Len(val)
    ELSE LET c    == pat[p]
             more == v <= Len(val)
         IN
         IF c = "*"
         THEN MatchFrom(pat, p + 1, val, v) \/ (more /\ MatchFrom(pat, p, val, v + 1))
         ELSE IF c = "?"
         THEN more /\ MatchFrom(pat, p + 1, val, v + 1)
         ELSE IF c = "["
         THEN LET neg   == p < Len(pat) /\ pat[p + 1] = "!"
                  first == IF neg THEN p + 2 ELSE p + 1
                  from  == IF first <= Len(pat) /\ pat[first] = "]"
                           THEN first + 1 ELSE first
                  j     == ClassEnd(pat, from)
              IN  IF j = 0
                  THEN more /\ val[v] = "[" /\ MatchFrom(pat, p + 1, val, v + 1)
                  ELSE LET cls == {pat[i] : i \in first..(j - 1)}
                       IN  /\ more
                           /\ (val[v] \in cls) = ~neg
                           /\ MatchFrom(pat, j + 1, val, v + 1)
         ELSE more /\ val[v] = c /\ MatchFrom(pat, p + 1, val, v + 1)

fnmatch(pat, val) == MatchFrom(pat, 1, val, 1)

\* TFRCDriver._part_match: fnmatch.filter([value], pattern) is non-empty
_part_match(pattern, value) == fnmatch(pattern, value)

\* KeySelected with the sensor id left out of the comparison
KeySelected_SkipId(pparts, k) ==
    LET kparts == split(k) IN
    \/ /\ Len(kparts) = 3
       /\ fnmatch(pparts[1], kparts[1])
       /\ fnmatch(pparts[3], kparts[3])
    \/ pparts[1] = k

\* The test of the loop body of _find_match for one key k: the glob branch and
\* the elif branch, either of which sets match = k and breaks.
KeySelected(pparts, k) ==
    LET kparts == split(k) IN
    \/ /\ Len(kparts) = 3
       /\ _part_match(pparts[1], kparts[1])
       /\ _part_match(pparts[2], kparts[2])
       /\ _part_match(pparts[3], kparts[3])
    \/ pparts[1] = k

\* for k in keylist: ... break  -- the first selected key, else None
RECURSIVE FirstSelected(_, _, _)
FirstSelected(pparts, keylist, i) ==
    IF i > Len(keylist) THEN None
    ELSE IF KeySelected(pparts, keylist[i]) THEN keylist[i]
    ELSE FirstSelected(pparts, keylist, i + 1)

\* _find_match with the elif branch tried for a pattern of any number of parts
_find_match_Fallback(pattern, keylist) ==
    IF pattern \in Range(keylist) THEN pattern
    ELSE LET pparts == split(pattern) IN
         IF Len(pparts) = 3 THEN FirstSelected(pparts, keylist, 1)
         ELSE IF pparts[1] \in Range(keylist) THEN pparts[1]
         ELSE None

\* TFRCDriver._find_match(pattern, keylist); keylist is pkt.keys(), a list in
\* the dict's iteration order
_find_match(pattern, keylist) ==
    IF pattern \in Range(keylist) THEN pattern
    ELSE LET pparts == split(pattern) IN
         IF Len(pparts) = 3 THEN FirstSelected(pparts, keylist, 1)
         ELSE None

\* ------------------------------------------------------------------ lines

(***************************************************************************)
(* A line of the decoder's output is held as what the code asks of it:     *)
(*   blank  line.strip() is empty                                          *)
(*   ts10   ProcManager.TS (a run of 10 spaces) is found in it             *)
(*   ids    the packet classes whose IDENTIFIER occurs in the stripped     *)
(*          line (str.find, a literal substring)                           *)
(*   pat    the packet classes whose PATTERN matches it (re.search)        *)
(*   g      the groups captured by TFA_1Packet.PATTERN (NoGroups without   *)
(*          a match): ts and temp, lowbat, rssi as the numbers their text  *)
(*          converts to, id and hum as their text                          *)
(***************************************************************************)
KNOWN_PACKETS ==
    <<"TFA_1Packet", "TFA_2Packet", "TFA_3Packet", "TX22Packet", "WeatherHubPacket">>

\* a KlimaLoggPro telegram "#n ts  hexdump<11 spaces>ID id temp hum%  seq s lowbat b RSSI r"
Telegram(ts, id, temp, hum, lb, rs) ==
    [blank |-> FALSE, ts10 |-> TRUE,
     ids |-> {"TFA_1Packet"}, pat |-> {"TFA_1Packet"},
     g |-> [ts |-> ts, id |-> id, temp |-> temp, hum |-> hum,
            lowbat |-> lb, rssi |-> rs]]

NoGroups ==
    [ts |-> 0, id |-> <<>>, temp |-> 0, hum |-> <<>>, lowbat |-> 0, rssi |-> 0]

\* any other line
Other(blank, ts10, ids, pat) ==
    [blank |-> blank, ts10 |-> ts10, ids |-> ids, pat |-> pat, g |-> NoGroups]

LineA == Telegram(1, <<"6","5","b","0">>, 1, <<"3","5">>, 0, 81)

LineB == Telegram(2, <<"6","5","b","0">>, 2, <<"0">>, 0, 81)

\* "" or "\n"
LineEmpty == Other(TRUE, FALSE, {}, {})

\* a line holding no IDENTIFIER, such as a banner of the decoder
LineUnknown == Other(FALSE, FALSE, {}, {})

\* "%  seq " occurs but the id is not 4 lower-case hex digits
LineTFA1Bad == Other(FALSE, TRUE, {"TFA_1Packet"}, {})

\* "... ID 10009a40 +17.2 47 12 12 RSSI 83 Offset 11kHz"
LineTFA2 == Other(FALSE, TRUE, {"TFA_2Packet"}, {"TFA_2Packet"})

\* a line in which "ID3000" occurs
LineTX22 == Other(FALSE, TRUE, {"TX22Packet"}, {})

\* the lines the decoder writes while genLoopPackets runs: two telegrams, and
\* one line for each other way through PacketFactory.parse_text (no payload,
\* no parser, a parser that returns an empty dict, a parser that raises)
Lines == {LineA, LineB, LineEmpty, LineUnknown, LineTFA1Bad, LineTX22}

\* ------------------------------------------------------------------ parsers

Digit(c) ==
    CASE c = "0" -> 0 [] c = "1" -> 1 [] c = "2" -> 2 [] c = "3" -> 3
      [] c = "4" -> 4 [] c = "5" -> 5 [] c = "6" -> 6 [] c = "7" -> 7
      [] c = "8" -> 8 [] c = "9" -> 9

\* float() of a string of decimal digits
RECURSIVE float(_)
float(s) ==
    IF s = <<>> THEN 0
    ELSE 10 * float(SubSeq(s, 1, Len(s) - 1)) + Digit(s[Len(s)])

\* dict minus one key (dict.pop)
Without(d, k) == [x \in DOMAIN d \ {k} |-> d[x]]

\* Packet.add_identifiers(pkt, sensor_id, packet_type)
add_identifiers(pkt, sensor_id, packet_type) ==
    LET bare == {dateTime, usUnits} \cap DOMAIN pkt
        rest == DOMAIN pkt \ bare
        qual == {Qualified(n, sensor_id, packet_type) : n \in rest}
    IN  [k \in bare \cup qual |->
            IF k \in bare THEN pkt[k]
            ELSE pkt[CHOOSE n \in rest : Qualified(n, sensor_id, packet_type) = k]]

\* TFA.insert_ids(pkt, pkt_type)
insert_ids(pkt, pkt_type) ==
    LET sensor_id == IF hardware_id \in DOMAIN pkt
                     THEN upper(pkt[hardware_id])
                     ELSE <<"0","0","0","0">>
    IN  add_identifiers(Without(pkt, hardware_id), sensor_id, pkt_type)

\* The dict TFA_1Packet.parse_text builds from the groups of a match
TFA_1Fields(g) ==
    LET keys == {dateTime, usUnits, hardware_id, temperature, lowbat, rssi}
                \cup (IF g.hum # <<"0">> THEN {humidity} ELSE {})
    IN  [k \in keys |->
            CASE k = dateTime    -> Num(g.ts)
              [] k = usUnits     -> Num(METRIC)
              [] k = hardware_id -> g.id
              [] k = temperature -> Num(g.temp)
              [] k = humidity    -> Num(float(g.hum))
              [] k = lowbat      -> Num(g.lowbat)
              [] k = rssi        -> Num(g.rssi)]

(***************************************************************************)
(* The outcome of a call is a record: raised (an exception left the call), *)
(* popped (lines.pop(0) was executed), none (the call returned None), pkt  *)
(* (the dict returned otherwise) and info (loginf was called).             *)
(***************************************************************************)
Outcome(raised, popped, none, pkt, info) ==
    [raised |-> raised, popped |-> popped, none |-> none, pkt |-> pkt, info |-> info]

\* TFA_1Packet.parse_text(payload, lines) on lines[0] = line
TFA_1Packet_parse_text(line) ==
    IF "TFA_1Packet" \in line.pat
    THEN Outcome(FALSE, TRUE, FALSE, insert_ids(TFA_1Fields(line.g), TFA_1Packet_name), FALSE)
    ELSE Outcome(FALSE, TRUE, FALSE, EmptyDict, TRUE)

\* Stub_parse_text storing fields on a match, as TFA_1Packet.parse_text does
Stub_parse_text_Fields(fmt, line) ==
    IF fmt \in line.pat
    THEN Outcome(FALSE, TRUE, FALSE, insert_ids(TFA_1Fields(line.g), TFA_1Packet_name), FALSE)
    ELSE Outcome(FALSE, TRUE, FALSE, EmptyDict, TRUE)

\* TFA_2Packet, TFA_3Packet and WeatherHubPacket.parse_text(payload, lines):
\* insert_ids of an empty dict on a match, an empty dict and loginf otherwise
Stub_parse_text(fmt, line) ==
    IF fmt \in line.pat
    THEN Outcome(FALSE, TRUE, FALSE, insert_ids(EmptyDict, <<>>), FALSE)
    ELSE Outcome(FALSE, TRUE, FALSE, EmptyDict, TRUE)

\* TX22Packet.parse_text(ts, payload, lines) called as parser.parse_text(payload,
\* lines): the call raises TypeError before the body runs
TX22Packet_parse_text(line) == Outcome(TRUE, FALSE, TRUE, EmptyDict, FALSE)

\* parser.parse_text(payload, lines) for the class named fmt
Parser_parse_text(fmt, line) ==
    CASE fmt = "TFA_1Packet" -> TFA_1Packet_parse_text(line)
      [] fmt = "TX22Packet"  -> TX22Packet_parse_text(line)
      [] OTHER               -> Stub_parse_text(fmt, line)

\* FirstParser going through KNOWN_PACKETS from its end
RECURSIVE FirstParser_Last(_, _)
FirstParser_Last(line, i) ==
    IF i > Len(KNOWN_PACKETS) THEN "none"
    ELSE IF KNOWN_PACKETS[Len(KNOWN_PACKETS) + 1 - i] \in line.ids
         THEN KNOWN_PACKETS[Len(KNOWN_PACKETS) + 1 - i]
    ELSE FirstParser_Last(line, i + 1)

\* for parser in KNOWN_PACKETS: if payload.find(parser.IDENTIFIER) >= 0
RECURSIVE FirstParser(_, _)
FirstParser(line, i) ==
    IF i > Len(KNOWN_PACKETS) THEN "none"
    ELSE IF KNOWN_PACKETS[i] \in line.ids THEN KNOWN_PACKETS[i]
    ELSE FirstParser(line, i + 1)

\* PacketFactory.parse_text(lines) on lines[0] = line
PacketFactory_parse_text(line) ==
    IF line.blank THEN Outcome(FALSE, TRUE, TRUE, EmptyDict, FALSE)
    ELSE LET fmt == FirstParser(line, 1) IN
         IF fmt = "none" THEN Outcome(FALSE, TRUE, TRUE, EmptyDict, FALSE)
         ELSE Parser_parse_text(fmt, line)

\* ------------------------------------------------------------------ mapper

\* the order in which the names of a parsed packet can come out of its dict
FieldOrder == <<dateTime, usUnits, temperature, humidity, lowbat, rssi>>

\* key k is the name n, bare or qualified
IsField(k, n) ==
    /\ Len(k) >= Len(n)
    /\ SubSeq(k, 1, Len(n)) = n
    /\ (Len(k) = Len(n) \/ k[Len(n) + 1] = ".")

Reverse(s) == [i \in 1..Len(s) |-> s[Len(s) + 1 - i]]

\* pkt.keys(): the keys of the dict as a list.  Python 2 fixes no order for
\* it; rev chooses between one order and its reverse.
keys(pkt, rev) ==
    LET present == SelectSeq(FieldOrder, LAMBDA n : \E k \in DOMAIN pkt : IsField(k, n))
        fwd     == [i \in 1..Len(present) |->
                        CHOOSE k \in DOMAIN pkt : IsField(k, present[i])]
    IN  IF rev THEN Reverse(fwd) ELSE fwd

\* the pattern of each output field resolved against the keys
Labels(sensor_map, keylist) ==
    [n \in DOMAIN sensor_map |-> _find_match(sensor_map[n], keylist)]

\* map_to_fields copying dateTime alone
map_to_fields_NoUnits(pkt, sensor_map, keylist) ==
    LET label  == Labels(sensor_map, keylist)
        routed == {n \in DOMAIN sensor_map : label[n] # None}
    IN  IF routed = {} THEN [raised |-> FALSE, packet |-> EmptyDict]
        ELSE IF dateTime \notin DOMAIN pkt THEN [raised |-> TRUE, packet |-> EmptyDict]
        ELSE [raised |-> FALSE,
              packet |-> [n \in routed \cup {dateTime} |->
                            IF n = dateTime THEN pkt[n] ELSE pkt[label[n]]]]

\* map_to_fields without the test "if packet:" around the copy of the stamps
map_to_fields_Always(pkt, sensor_map, keylist) ==
    LET label  == Labels(sensor_map, keylist)
        routed == {n \in DOMAIN sensor_map : label[n] # None}
        stamps == {dateTime, usUnits}
    IN  IF ~(stamps \subseteq DOMAIN pkt) THEN [raised |-> TRUE, packet |-> EmptyDict]
        ELSE [raised |-> FALSE,
              packet |-> [n \in routed \cup stamps |->
                            IF n \in stamps THEN pkt[n] ELSE pkt[label[n]]]]

\* TFRCDriver.map_to_fields(pkt, sensor_map), with pkt.keys() = keylist:
\* raised is the KeyError of packet[k] = pkt[k]
map_to_fields(pkt, sensor_map, keylist) ==
    LET label  == Labels(sensor_map, keylist)
        routed == {n \in DOMAIN sensor_map : label[n] # None}
        stamps == {dateTime, usUnits}
    IN  IF routed = {} THEN [raised |-> FALSE, packet |-> EmptyDict]
        ELSE IF ~(stamps \subseteq DOMAIN pkt) THEN [raised |-> TRUE, packet |-> EmptyDict]
        ELSE [raised |-> FALSE,
              packet |-> [n \in routed \cup stamps |->
                            IF n \in stamps THEN pkt[n] ELSE pkt[label[n]]]]

\* ------------------------------------------------------------------ deltas

\* TFRCDriver.DEFAULT_DELTAS
DEFAULT_DELTAS ==
    [k \in {rain, strikes} |-> IF k = rain THEN rain_total ELSE strikes_total]

\* _calculate_delta with newtotal > oldtotal for newtotal >= oldtotal
_calculate_delta_Strict(newtotal, oldtotal) ==
    IF ~IsNone(newtotal) /\ ~IsNone(oldtotal)
    THEN IF Val(newtotal) > Val(oldtotal)
         THEN Num(Val(newtotal) - Val(oldtotal))
         ELSE None
    ELSE None

\* TFRCDriver._calculate_delta(label, newtotal, oldtotal)
_calculate_delta(newtotal, oldtotal) ==
    IF ~IsNone(newtotal) /\ ~IsNone(oldtotal)
    THEN IF Val(newtotal) >= Val(oldtotal)
         THEN Num(Val(newtotal) - Val(oldtotal))
         ELSE None
    ELSE None

\* dict.get(key): None for a missing key
Get(d, k) == IF k \in DOMAIN d THEN d[k] ELSE None

\* d[k] = v
Put(d, k, v) == [x \in DOMAIN d \cup {k} |-> IF x = k THEN v ELSE d[x]]

\* DeltaStep storing the new total only when a delta was computed or none was
\* stored before
DeltaStep_KeepBase(st, deltas, k) ==
    LET label == deltas[k] IN
    IF label \in DOMAIN st.pkt
    THEN LET old   == Get(st.cv, label)
             delta == _calculate_delta(st.pkt[label], old)
             pkt2  == Put(st.pkt, k, delta)
             cv2   == IF IsNone(delta) /\ ~IsNone(old) THEN st.cv
                      ELSE Put(st.cv, label, pkt2[label])
         IN  [pkt |-> pkt2, cv |-> cv2,
              calls |-> Append(st.calls,
                          [label |-> label, total |-> st.pkt[label], old |-> old,
                           delta |-> pkt2[k], base |-> cv2[label]])]
    ELSE st

\* One pass of the loop body of _calculate_deltas for the delta name k; st is
\* [pkt, cv, calls]: the packet, self._counter_values and the calls of
\* _calculate_delta made so far, each as [label, total, old, delta, base].
DeltaStep(st, deltas, k) ==
    LET label == deltas[k] IN
    IF label \in DOMAIN st.pkt
    THEN LET old   == Get(st.cv, label)
             delta == _calculate_delta(st.pkt[label], old)
             pkt2  == Put(st.pkt, k, delta)
             cv2   == Put(st.cv, label, pkt2[label])
         IN  [pkt |-> pkt2, cv |-> cv2,
              calls |-> Append(st.calls,
                          [label |-> label, total |-> st.pkt[label], old |-> old,
                           delta |-> pkt2[k], base |-> cv2[label]])]
    ELSE st

\* TFRCDriver._calculate_deltas(pkt): for k in self._deltas
RECURSIVE DeltaLoop(_, _, _)
DeltaLoop(st, deltas, todo) ==
    IF todo = {} THEN st
    ELSE LET k == CHOOSE x \in todo : TRUE
         IN  DeltaLoop(DeltaStep(st, deltas, k), deltas, todo \ {k})

_calculate_deltas(pkt, deltas, cv) ==
    DeltaLoop([pkt |-> pkt, cv |-> cv, calls |-> <<>>], deltas, DOMAIN deltas)

\* ------------------------------------------------------------------ configuration

\* the most lines the decoder writes in a run of the model
MaxLines == 3

\* Queue.get(True, 3): seconds waited for a line
QueueTimeout == 3

\* get_stdout runs for less than 10 seconds
PollCap == 10

SensorId == <<"6","5","B","0">>

\* no [[sensor_map]] stanza
NoMap == EmptyDict

\* temp3 = temperature.65B0.TFA_1Packet, humidity3 = humidity.65B0.TFA_1Packet
TempMap ==
    [n \in {temp3, humidity3} |->
        IF n = temp3 THEN Qualified(temperature, SensorId, TFA_1Packet_name)
        ELSE Qualified(humidity, SensorId, TFA_1Packet_name)]

\* rain_total = temperature.*.TFA_1Packet: a cumulative counter (the decoder
\* reports a rain counter as the temperature value)
RainMap ==
    [n \in {rain_total} |-> Qualified(temperature, <<"*">>, TFA_1Packet_name)]

\* the configurations of the model: a sensor_map and a deltas stanza, which is
\* absent (the default applies) or empty
Configs ==
    {<<NoMap, DEFAULT_DELTAS>>, <<TempMap, DEFAULT_DELTAS>>,
     <<RainMap, DEFAULT_DELTAS>>, <<RainMap, EmptyDict>>}

\* ------------------------------------------------------------------ state

VARIABLES
    sensor_map,       \* TFRCDriver._sensor_map
    deltas,           \* TFRCDriver._deltas
    alive,            \* the decoder process has not exited
    startups,         \* calls of ProcManager.startup
    written,          \* lines the decoder has written
    stdout_queue,     \* ProcManager.stdout_queue
    pc,               \* where the consumer stands in genLoopPackets
    resume,           \* where get_stdout continues after its yield
    lines,            \* get_stdout: lines
    line,             \* get_stdout: line, held across the yield of line 306
    elapsed,          \* get_stdout: int(time.time()) - start_time
    block,            \* the list get_stdout yielded, consumed by create
    last_pkt,         \* TFRCDriver._last_pkt
    counter_values,   \* TFRCDriver._counter_values
    out,              \* the records genLoopPackets has yielded
    src,              \* for each of them, the observation it was mapped from
    calls,            \* the calls of _calculate_delta, in order
    mapped,           \* the last call of map_to_fields, as a list of at most one
    len0,             \* length of block when create was entered
    parsed,           \* calls of PacketFactory.parse_text in this create
    log_unknown,      \* TFRCDriver._log_unknown
    log_unmapped,     \* TFRCDriver._log_unmapped
    observed,         \* the dicts PacketFactory.create has yielded, in order
    logged,           \* what the last turn of create and its loop body logged
    taken,            \* the lines get_stdout has taken from stdout_queue, in order
    emitted,          \* the lists get_stdout has yielded, one after the other
    fm,               \* a call of _find_match on its own
    tx,               \* a call of PacketFactory.parse_text on a line of text
    rd                \* an AsyncReader and the stop_running() of shutdown

drv == <<pc, resume, lines, line, elapsed, block, last_pkt, counter_values,
         out, src, calls, mapped, len0, parsed, logged, taken, emitted,
         observed>>

cfg == <<sensor_map, deltas, log_unknown, log_unmapped>>

\* the variables of the calls made on their own
trial == <<fm, tx, rd>>

proc == <<alive, startups, written>>

vars == <<sensor_map, deltas, alive, startups, written, stdout_queue,
          pc, resume, lines, line, elapsed, block, last_pkt, counter_values,
          out, src, calls, mapped, len0, parsed,
          log_unknown, log_unmapped, logged, taken, emitted,
          observed, fm, tx, rd>>

NoCall == [pattern |-> <<>>, keylist |-> <<>>, match |-> <<>>, done |-> FALSE]

NoText ==
    [text |-> <<>>, gen |-> FALSE,
     vals |-> [n |-> 0, ts |-> 0, id |-> <<>>, temp |-> 0, hum |-> 0, seq |-> <<>>,
               lowbat |-> 0, rssi |-> 0],
     done |-> FALSE, fmt |-> "none",
     o |-> [raised |-> FALSE, popped |-> FALSE, none |-> TRUE, pkt |-> EmptyDict,
            info |-> FALSE]]

NoReader == [pc |-> "unstarted", running |-> FALSE, stopped |-> FALSE, after |-> 0]

\* the process is started, nothing is read yet and genLoopPackets has not run
Constructed ==
    /\ alive = TRUE
    /\ startups = 1
    /\ written = 0
    /\ stdout_queue = <<>>
    /\ pc = "loop"
    /\ resume = "end"
    /\ lines = <<>>
    /\ line = LineEmpty
    /\ elapsed = 0
    /\ block = <<>>
    /\ last_pkt = None
    /\ counter_values = EmptyDict
    /\ out = <<>>
    /\ src = <<>>
    /\ calls = <<>>
    /\ mapped = <<>>
    /\ len0 = 0
    /\ parsed = 0
    /\ logged = <<>>
    /\ observed = <<>>
    /\ taken = <<>>
    /\ emitted = <<>>

\* TFRCDriver.__init__ has run, log_unknown_sensors and log_unmapped_sensors
\* being left at their default
Init ==
    /\ \E c \in Configs : sensor_map = c[1] /\ deltas = c[2]
    /\ log_unknown = FALSE
    /\ log_unmapped = FALSE
    /\ Constructed
    /\ fm = NoCall
    /\ tx = NoText
    /\ rd = NoReader

\* ------------------------------------------------------------------ decoder and reader

\* ProcManager.running(): self._process.poll() is None
running == alive

\* The decoder writes a line to its stdout and AsyncReader.run takes one turn
\* of its loop: readline returns the line, queue.put stores it.
ReaderRun ==
    /\ alive
    /\ written < MaxLines
    /\ \E l \in Lines : stdout_queue' = Append(stdout_queue, l)
    /\ written' = written + 1
    /\ UNCHANGED <<cfg, alive, startups, drv, trial>>

\* the decoder exits
ProcExit ==
    /\ alive
    /\ alive' = FALSE
    /\ UNCHANGED <<cfg, startups, written, stdout_queue, drv, trial>>

\* ------------------------------------------------------------------ syslog

logdbg(msg) == [level |-> "debug", msg |-> msg]

loginf(msg) == [level |-> "info", msg |-> msg]

\* what PacketFactory.parse_text and the parser it calls log for lines[0] =
\* l, o being the outcome of the call
ParseLog(l, o) ==
    IF o.raised THEN <<>>
    ELSE IF l.blank THEN <<logdbg("parse_text failed")>>
    ELSE IF FirstParser(l, 1) = "none" THEN <<logdbg("parse_text: unknown format")>>
    ELSE IF o.info THEN <<loginf("unrecognized data")>>
    ELSE <<>>

\* LoopLog with the two flags taken one for the other
LoopLog_Swapped(pkt, m, last, unknown, unmapped) ==
    IF pkt = EmptyDict
    THEN IF unmapped THEN <<loginf("missed (unparsed)")>> ELSE <<>>
    ELSE IF m.raised THEN <<>>
    ELSE IF m.packet = EmptyDict
    THEN IF unknown THEN <<loginf("unmapped")>> ELSE <<>>
    ELSE IF m.packet = last THEN <<logdbg("ignoring duplicate packet")>>
    ELSE <<logdbg("packet")>>

\* what the body of the loop over PacketFactory.create logs for one yielded
\* pkt, lines 651-664
LoopLog(pkt, m, last, unknown, unmapped) ==
    IF pkt = EmptyDict
    THEN IF unknown THEN <<loginf("missed (unparsed)")>> ELSE <<>>
    ELSE IF m.raised THEN <<>>
    ELSE IF m.packet = EmptyDict
    THEN IF unmapped THEN <<loginf("unmapped")>> ELSE <<>>
    ELSE IF m.packet = last THEN <<logdbg("ignoring duplicate packet")>>
    ELSE <<logdbg("packet")>>

\* ------------------------------------------------------------------ genLoopPackets

\* The body of the loop over PacketFactory.create for one yielded pkt (a dict),
\* lines 651-664, m being what map_to_fields(pkt, self._sensor_map) gives.  The
\* result holds the new _last_pkt and _counter_values, the records yielded
\* (none or one) and what was called on the way.
LoopBody(pkt, m, dspec, last, cv) ==
    LET idle == [raised |-> FALSE, last |-> last, cv |-> cv, yielded |-> <<>>,
                 calls |-> <<>>, mapped |-> <<>>]
    IN  IF pkt = EmptyDict THEN idle
        ELSE LET call == <<[pkt |-> pkt, packet |-> m.packet]>>
             IN  IF m.raised THEN [idle EXCEPT !.raised = TRUE]
                 ELSE IF m.packet = EmptyDict THEN [idle EXCEPT !.mapped = call]
                 ELSE IF m.packet = last THEN [idle EXCEPT !.mapped = call]
                 ELSE LET d == _calculate_deltas(m.packet, dspec, cv)
                      IN  \* _last_pkt is the very dict the deltas are written to
                          [raised |-> FALSE, last |-> d.pkt, cv |-> d.cv,
                           yielded |-> <<d.pkt>>, calls |-> d.calls, mapped |-> call]

\* while self._mgr.running(): for lines in self._mgr.get_stdout():
GenLoopEnter ==
    /\ pc = "loop"
    /\ running
    /\ pc' = "poll"
    /\ lines' = <<>>
    /\ elapsed' = 0
    /\ UNCHANGED <<cfg, proc, stdout_queue, resume, line, block, last_pkt,
                   counter_values, out, src, calls, mapped, len0, parsed,
                   logged, observed, taken, emitted, trial>>

\* GenLoopRaise starting the decoder again instead of raising
GenLoopRaise_Restart ==
    /\ pc = "loop"
    /\ ~running
    /\ alive' = TRUE
    /\ startups' = startups + 1
    /\ UNCHANGED <<cfg, written, stdout_queue, drv, trial>>

\* else: logerr(get_stderr()); raise weewx.WeeWxIOError
GenLoopRaise ==
    /\ pc = "loop"
    /\ ~running
    /\ pc' = "fatal"
    /\ UNCHANGED <<cfg, proc, stdout_queue, resume, lines, line, elapsed, block,
                   last_pkt, counter_values, out, src, calls, mapped, len0, parsed,
                   logged, observed, taken, emitted, trial>>

\* Yield handing the list over last line first
Yield_Reversed(l, r) ==
    /\ block' = Reverse(l)
    /\ resume' = r
    /\ len0' = Len(l)
    /\ parsed' = 0
    /\ pc' = "create"
    /\ emitted' = emitted \o l

\* get_stdout yields list l and will continue at r; create(l) starts
Yield(l, r) ==
    /\ block' = l
    /\ resume' = r
    /\ len0' = Len(l)
    /\ parsed' = 0
    /\ pc' = "create"
    /\ emitted' = emitted \o l

\* GetStdoutLine without the test of line 305: every line is appended
GetStdoutLine_AppendAll ==
    /\ pc = "poll"
    /\ running /\ elapsed < PollCap
    /\ stdout_queue # <<>>
    /\ stdout_queue' = Tail(stdout_queue)
    /\ \E d \in {0, QueueTimeout} : elapsed' = elapsed + d
    /\ lines' = Append(lines, Head(stdout_queue))
    /\ taken' = Append(taken, Head(stdout_queue))
    /\ UNCHANGED <<cfg, proc, pc, resume, line, block, len0, parsed, emitted,
                   last_pkt, counter_values, out, src, calls, mapped, logged, observed, trial>>

\* get_stdout: stdout_queue.get(True, 3) returns a line, at once or late
GetStdoutLine ==
    /\ pc = "poll"
    /\ running /\ elapsed < PollCap
    /\ stdout_queue # <<>>
    /\ stdout_queue' = Tail(stdout_queue)
    /\ \E d \in {0, QueueTimeout} : elapsed' = elapsed + d
    /\ LET l == Head(stdout_queue) IN
       IF l.ts10 /\ lines # <<>>
       THEN /\ Yield(lines, "append")
            /\ line' = l
            /\ UNCHANGED lines
       ELSE /\ lines' = Append(lines, l)
            /\ UNCHANGED <<pc, resume, line, block, len0, parsed, emitted>>
    /\ taken' = Append(taken, Head(stdout_queue))
    /\ UNCHANGED <<cfg, proc, last_pkt, counter_values, out, src, calls, mapped,
                   logged, observed, trial>>

\* get_stdout: Queue.Empty after 3 seconds, yield lines
GetStdoutEmpty ==
    /\ pc = "poll"
    /\ running /\ elapsed < PollCap
    /\ stdout_queue = <<>>
    /\ elapsed' = elapsed + QueueTimeout
    /\ Yield(lines, "poll")
    /\ UNCHANGED <<cfg, proc, stdout_queue, lines, line, last_pkt, counter_values,
                   out, src, calls, mapped, logged, observed, taken, trial>>

\* get_stdout: the while loop is left, the last yield lines
GetStdoutLast ==
    /\ pc = "poll"
    /\ ~(running /\ elapsed < PollCap)
    /\ Yield(lines, "end")
    /\ UNCHANGED <<cfg, proc, stdout_queue, lines, line, elapsed, last_pkt,
                   counter_values, out, src, calls, mapped, logged, observed, taken, trial>>

\* PacketFactory.create: one turn of while lines, and the body of the loop of
\* genLoopPackets on the pkt it yields
CreateStep ==
    /\ pc = "create"
    /\ block # <<>>
    /\ \E o \in {PacketFactory_parse_text(Head(block))} :
       /\ parsed' = parsed + 1
       /\ block' = IF o.popped THEN Tail(block) ELSE block
       /\ IF o.raised
          THEN /\ pc' = "crashed"
               /\ logged' = ParseLog(Head(block), o)
               /\ UNCHANGED observed
               /\ UNCHANGED <<last_pkt, counter_values, out, src, calls, mapped>>
          ELSE IF o.none
          THEN /\ logged' = ParseLog(Head(block), o)
               /\ UNCHANGED observed
               /\ UNCHANGED <<pc, last_pkt, counter_values, out, src, calls, mapped>>
          ELSE \E rev \in BOOLEAN :
               \E m \in {map_to_fields(o.pkt, sensor_map, keys(o.pkt, rev))} :
               \E b \in {LoopBody(o.pkt, m, deltas, last_pkt, counter_values)} :
                   /\ observed' = Append(observed, o.pkt)
                   /\ logged' = ParseLog(Head(block), o)
                                 \o LoopLog(o.pkt, m, last_pkt, log_unknown, log_unmapped)
                   /\ pc' = IF b.raised THEN "crashed" ELSE pc
                   /\ last_pkt' = b.last
                   /\ counter_values' = b.cv
                   /\ out' = out \o b.yielded
                   /\ src' = IF b.yielded = <<>> THEN src ELSE Append(src, o.pkt)
                   /\ calls' = calls \o b.calls
                   /\ mapped' = IF b.mapped = <<>> THEN mapped ELSE b.mapped
    /\ UNCHANGED <<cfg, proc, stdout_queue, resume, lines, line, elapsed, len0,
                   taken, emitted, trial>>

\* CreateDoneResume without lines.append(line) after the yield of line 306
CreateDoneResume_Drop ==
    /\ pc = "create"
    /\ block = <<>>
    /\ resume \in {"append", "poll"}
    /\ lines' = <<>>
    /\ pc' = "poll"
    /\ UNCHANGED <<cfg, proc, stdout_queue, resume, line, elapsed, block, last_pkt,
                   counter_values, out, src, calls, mapped, len0, parsed,
                   logged, observed, taken, emitted, trial>>

\* create is exhausted and get_stdout continues after its yield: lines = [] and
\* lines.append(line) after line 306, lines = [] after line 310
CreateDoneResume ==
    /\ pc = "create"
    /\ block = <<>>
    /\ resume \in {"append", "poll"}
    /\ lines' = IF resume = "append" THEN <<line>> ELSE <<>>
    /\ pc' = "poll"
    /\ UNCHANGED <<cfg, proc, stdout_queue, resume, line, elapsed, block, last_pkt,
                   counter_values, out, src, calls, mapped, len0, parsed,
                   logged, observed, taken, emitted, trial>>

\* CreateDoneEnd forgetting _last_pkt at the end of a poll cycle
CreateDoneEnd_Forget ==
    /\ pc = "create"
    /\ block = <<>>
    /\ resume = "end"
    /\ pc' = "loop"
    /\ lines' = <<>>
    /\ line' = LineEmpty
    /\ elapsed' = 0
    /\ last_pkt' = None
    /\ UNCHANGED <<cfg, proc, stdout_queue, resume, block,
                   counter_values, out, src, calls, mapped, len0, parsed,
                   logged, observed, taken, emitted, trial>>

\* create is exhausted after the last yield: get_stdout ends, get_stderr
\* flushes the stderr queue, and the while of genLoopPackets is tested again
CreateDoneEnd ==
    /\ pc = "create"
    /\ block = <<>>
    /\ resume = "end"
    /\ pc' = "loop"
    /\ lines' = <<>>
    /\ line' = LineEmpty
    /\ elapsed' = 0
    /\ UNCHANGED <<cfg, proc, stdout_queue, resume, block,
                   last_pkt, counter_values, out, src, calls, mapped, len0, parsed,
                   logged, observed, taken, emitted, trial>>

\* the steps of the generator other than a turn of create, taken as long as
\* the caller pulls
Pull ==
    \/ GenLoopEnter
    \/ GenLoopRaise
    \/ GetStdoutLine
    \/ GetStdoutEmpty
    \/ GetStdoutLast
    \/ CreateDoneResume
    \/ CreateDoneEnd

Next ==
    \/ ReaderRun
    \/ ProcExit
    \/ GenLoopEnter
    \/ GenLoopRaise
    \/ GetStdoutLine
    \/ GetStdoutEmpty
    \/ GetStdoutLast
    \/ CreateStep
    \/ CreateDoneResume
    \/ CreateDoneEnd

Spec == Init /\ [][Next]_vars

\* a turn of create can be taken: parsed changes in every one of them
CreateStepEnabled == pc = "create" /\ block # <<>>

\* the caller keeps pulling: weak fairness of every step of the generator,
\* that of CreateStep written out over its enabling condition
FairSpec ==
    /\ Spec
    /\ WF_vars(Pull)
    /\ ([]<>~CreateStepEnabled \/ []<><<CreateStep>>_vars)

\* ------------------------------------------------------------------ _find_match on its own

\* the observations the telegrams of the model parse to
ObsA == PacketFactory_parse_text(LineA).pkt

ObsB == PacketFactory_parse_text(LineB).pkt

Key(n) == Qualified(n, SensorId, TFA_1Packet_name)

\* key lists: the keys of an observation in two orders, and three keys in
\* every order
KeyLists ==
    {keys(o, rev) : o \in {ObsA, ObsB}, rev \in BOOLEAN}
    \cup {<<dateTime, Key(temperature), Key(humidity)>>,
          <<dateTime, Key(humidity), Key(temperature)>>,
          <<Key(temperature), dateTime, Key(humidity)>>,
          <<Key(temperature), Key(humidity), dateTime>>,
          <<Key(humidity), dateTime, Key(temperature)>>,
          <<Key(humidity), Key(temperature), dateTime>>}

Pat(a, b, c) == a \o <<".">> \o b \o <<".">> \o c

Patterns ==
    {Pat(temperature, SensorId, TFA_1Packet_name),
     Pat(temperature, <<"6","5","b","0">>, TFA_1Packet_name),
     Pat(temperature, <<"*">>, TFA_1Packet_name),
     Pat(<<"*">>, <<"*">>, TFA_1Packet_name),
     Pat(humidity, <<"6","5","B","?">>, <<"*">>),
     Pat(<<"*","t","*">>, <<"6","5","[","A","B","]","0">>, <<"T","F","A","_","?","P","a","c","k","e","t">>),
     Pat(rain, <<"*">>, <<"*">>),
     Pat(dateTime, <<"*">>, <<"*">>),
     Pat(usUnits, SensorId, TFA_1Packet_name),
     dateTime \o <<".">> \o <<"x">>,
     dateTime,
     temperature}

InitMatch ==
    /\ sensor_map = NoMap /\ deltas = DEFAULT_DELTAS
    /\ log_unknown = FALSE /\ log_unmapped = FALSE
    /\ Constructed
    /\ tx = NoText /\ rd = NoReader
    /\ \E p \in Patterns, kl \in KeyLists :
         fm = [pattern |-> p, keylist |-> kl, match |-> None, done |-> FALSE]

\* label = TFRCDriver._find_match(pattern, keylist)
FindMatch ==
    /\ ~fm.done
    /\ fm' = [fm EXCEPT !.match = _find_match(fm.pattern, fm.keylist), !.done = TRUE]
    /\ UNCHANGED <<cfg, proc, stdout_queue, drv, tx, rd>>

NextMatch == FindMatch

SpecMatch == InitMatch /\ [][NextMatch]_vars

\* ------------------------------------------------------------------ text of a line

(***************************************************************************)
(* A line as the characters the decoder wrote, and what the code computes  *)
(* from them: str.strip, str.find and re.search.  A compiled pattern is a  *)
(* sequence of tokens, each a character class (any: the dot) taken lo      *)
(* times, or lo times and more (many); grp numbers the token of a group.   *)
(***************************************************************************)
Sp(n) == [i \in 1..n |-> " "]

Is_space(c) == c \in {" ", "\n", "\t", "\r"}

\* s.strip()
strip(s) ==
    LET keep == {i \in 1..Len(s) : ~Is_space(s[i])} IN
    IF keep = {} THEN <<>>
    ELSE SubSeq(s, CHOOSE i \in keep : \A j \in keep : i <= j,
                   CHOOSE i \in keep : \A j \in keep : i >= j)

\* s.find(sub) >= 0
find(s, sub) ==
    \E i \in 0..(Len(s) - Len(sub)) : SubSeq(s, i + 1, i + Len(sub)) = sub

Digits == {"0", "1", "2", "3", "4", "5", "6", "7", "8", "9"}

Tok(cls, any, lo, many, grp) ==
    [cls |-> cls, any |-> any, lo |-> lo, many |-> many, grp |-> grp]

\* the characters of a literal, one token each
Lit(chars) == [i \in 1..Len(chars) |-> Tok({chars[i]}, FALSE, 1, FALSE, 0)]

\* [cls]+ and ([cls]+)
Plus(cls) == <<Tok(cls, FALSE, 1, TRUE, 0)>>

Group(cls, grp) == <<Tok(cls, FALSE, 1, TRUE, grp)>>

\* ([cls]{n}) and ([cls])
GroupN(cls, n, grp) == <<Tok(cls, FALSE, n, FALSE, grp)>>

\* .+
DotPlus == <<Tok({}, TRUE, 1, TRUE, 0)>>

InClass(c, tok) == IF tok.any THEN c # "\n" ELSE c \in tok.cls

\* where a match of tok can end when it starts after j characters of s
TokEnds(tok, s, j) ==
    {e \in (j + tok.lo)..(IF tok.many THEN Len(s) ELSE j + tok.lo) :
        e <= Len(s) /\ \A k \in (j + 1)..e : InClass(s[k], tok)}

\* where a match of the tokens i.. of re can end when it starts at one of starts
RECURSIVE MatchEnds(_, _, _, _)
MatchEnds(re, i, s, starts) ==
    IF i > Len(re) \/ starts = {} THEN starts
    ELSE MatchEnds(re, i + 1, s, UNION {TokEnds(re[i], s, j) : j \in starts})

\* the end of each token in the match re.search finds: every token takes the
\* most characters that still let the rest of the pattern match
RECURSIVE Greedy(_, _, _, _)
Greedy(re, i, s, j) ==
    IF i > Len(re) THEN <<>>
    ELSE LET ok == {e \in TokEnds(re[i], s, j) : MatchEnds(re, i + 1, s, {e}) # {}}
         IN  CHOOSE r \in {<<e>> \o Greedy(re, i + 1, s, e) :
                              e \in {x \in ok : \A y \in ok : y <= x}} : TRUE

\* re.search(s) of a pattern that starts with ^: is there a match
re_search(re, s) == MatchEnds(re, 1, s, {0}) # {}

\* m.group(n) of the match, ends being Greedy(re, 1, s, 0)
group(re, s, ends, n) ==
    LET i == CHOOSE x \in 1..Len(re) : re[x].grp = n
    IN  SubSeq(s, (IF i = 1 THEN 0 ELSE ends[i - 1]) + 1, ends[i])

HexLower == Digits \cup {"a", "b", "c", "d", "e", "f"}

HexBoth == HexLower \cup {"A", "B", "C", "D", "E", "F"}

\* parser.IDENTIFIER of the class named fmt
IDENTIFIER(fmt) ==
    CASE fmt = "TFA_1Packet"      -> <<"%", " ", " ", "s", "e", "q", " ">>
      [] fmt = "TFA_2Packet"      -> <<"I", "D", " ", "1", "0", "0", "0">>
      [] fmt = "TFA_3Packet"      -> <<"I", "D", " ", "2", "0", "0", "0">>
      [] fmt = "TX22Packet"       -> <<"I", "D", "3", "0", "0", "0">>
      [] fmt = "WeatherHubPacket" -> <<" ", "{", "1", "0", "}">>

\* '^#\d+ ([\d]+)  .+'
PatternHead ==
    Lit(<<"#">>) \o Plus(Digits) \o Lit(<<" ">>) \o Group(Digits, 1)
    \o Lit(<<" ", " ">>) \o DotPlus

\* TFA_1Packet.PATTERN
TFA_1Packet_PATTERN ==
    PatternHead \o Lit(<<"I", "D", " ">>) \o GroupN(HexLower, 4, 2) \o Lit(<<" ">>)
    \o Group(Digits \cup {".", "+", "-"}, 3) \o Lit(<<" ">>) \o Group(Digits, 4)
    \o Lit(<<"%", " ", " ", "s", "e", "q", " ">>) \o Group(HexBoth, 5)
    \o Lit(<<" ", "l", "o", "w", "b", "a", "t", " ">>) \o Group(Digits, 6)
    \o Lit(<<" ", "R", "S", "S", "I", " ">>) \o Group(Digits, 7)

\* the PATTERN of TFA_2Packet, TFA_3Packet and TX22Packet, which differ in the
\* literal after '.+': 'ID 1000', 'ID 2000', 'ID 3000'
TFA_nPacket_PATTERN(literal) ==
    PatternHead \o Lit(literal) \o GroupN({"0", "9"}, 1, 2) \o GroupN(HexLower, 2, 3)
    \o GroupN({"0", "1", "2", "3", "4"}, 1, 4) \o Lit(<<" ">>)
    \o Group(Digits \cup {".", "-"}, 5) \o Lit(<<" ">>) \o Group(Digits, 6)
    \o Lit(<<" ">>) \o Group(Digits, 7) \o Lit(<<" ">>) \o Group(Digits, 8)
    \o Lit(<<" ", "R", "S", "S", "I", " ">>) \o Group(Digits, 9)
    \o Lit(<<" ", "O", "f", "f", "s", "e", "t", " ">>) \o Group(Digits, 10) \o Lit(<<"k", "H", "z">>)

\* WeatherHubPacket.PATTERN
WeatherHubPacket_PATTERN ==
    PatternHead \o GroupN(HexLower, 12, 2)
    \o GroupN({"1", "2", "3", "4", "5", "c", "d", "e"}, 1, 3) \o Lit(<<" ">>)
    \o Group(Digits \cup {".", "-"}, 4) \o Lit(<<" ">>) \o Group(Digits, 5)
    \o Lit(<<" ">>) \o Group(Digits, 6) \o Lit(<<" ">>) \o Group(Digits, 7)
    \o Lit(<<" ">>) \o Group(Digits, 8) \o Lit(<<" ">>) \o Group(Digits, 9)

\* parser.PATTERN of the class named fmt
PATTERN(fmt) ==
    CASE fmt = "TFA_1Packet"      -> TFA_1Packet_PATTERN
      [] fmt = "TFA_2Packet"      -> TFA_nPacket_PATTERN(<<"I", "D", " ", "1", "0", "0", "0">>)
      [] fmt = "TFA_3Packet"      -> TFA_nPacket_PATTERN(<<"I", "D", " ", "2", "0", "0", "0">>)
      [] fmt = "TX22Packet"       -> TFA_nPacket_PATTERN(<<"I", "D", " ", "3", "0", "0", "0">>)
      [] fmt = "WeatherHubPacket" -> WeatherHubPacket_PATTERN

\* float_tenths dropping the sign
float_tenths_Unsigned(s) ==
    LET body == IF s[1] \in {"+", "-"} THEN Tail(s) ELSE s
        dots == {i \in 1..Len(body) : body[i] = "."}
    IN  IF dots = {} THEN 10 * float(body)
        ELSE 10 * float(SubSeq(body, 1, (CHOOSE i \in dots : TRUE) - 1))
             + Digit(body[Len(body)])

\* float() of the text of a temperature in tenths of a degree, for a text
\* [+-]digits[.digit]; float() raises ValueError for a text such as "+-" or
\* "1.2.3", which the class of group 3 lets through
float_tenths(s) ==
    LET neg   == s[1] = "-"
        body  == IF s[1] \in {"+", "-"} THEN Tail(s) ELSE s
        dots  == {i \in 1..Len(body) : body[i] = "."}
        whole == IF dots = {} THEN body
                 ELSE SubSeq(body, 1, (CHOOSE i \in dots : TRUE) - 1)
        frac  == IF dots = {} \/ body[Len(body)] = "." THEN 0
                 ELSE Digit(body[Len(body)])
        v     == 10 * float(whole) + frac
    IN  IF neg THEN 0 - v ELSE v

\* The groups TFA_1Packet.parse_text converts, for the match on text s
TFA_1Groups(s) ==
    LET re == TFA_1Packet_PATTERN IN
    CHOOSE r \in
        {[ts     |-> float(group(re, s, ends, 1)),
          id     |-> group(re, s, ends, 2),
          temp   |-> float_tenths(group(re, s, ends, 3)),
          hum    |-> group(re, s, ends, 4),
          lowbat |-> float(group(re, s, ends, 6)),
          rssi   |-> float(group(re, s, ends, 7))] :
            ends \in {Greedy(re, 1, s, 0)}} : TRUE

\* what the code asks of the line whose text is s
LineOf(s) ==
    [blank |-> strip(s) = <<>>,
     ts10  |-> find(s, Sp(10)),
     ids   |-> {f \in Range(KNOWN_PACKETS) : find(strip(s), IDENTIFIER(f))},
     pat   |-> {f \in Range(KNOWN_PACKETS) : re_search(PATTERN(f), s)},
     g     |-> IF re_search(TFA_1Packet_PATTERN, s) THEN TFA_1Groups(s) ELSE NoGroups]

\* ------------------------------------------------------------------ parse_text on a line of text

DigitChar(d) == CHOOSE c \in Digits : Digit(c) = d

\* str(n) of a natural number
RECURSIVE Dec(_)
Dec(n) == IF n < 10 THEN <<DigitChar(n)>> ELSE Dec(n \div 10) \o <<DigitChar(n % 10)>>

\* "%+.1f" of a temperature of t tenths of a degree
TempText(t) ==
    LET a == IF t < 0 THEN 0 - t ELSE t IN
    <<IF t < 0 THEN "-" ELSE "+">> \o Dec(a \div 10) \o <<".">> \o Dec(a % 10)

\* the hex dump and the run of spaces the decoder prints before ID
Dump == <<"2", "d", " ", "d", "4", " ", "6", "5", " ", "b", "0", " ", "8", "6">> \o Sp(11)

\* The telegram the decoder prints for a KlimaLoggPro sensor, from its values
TelegramText(v) ==
    <<"#">> \o Dec(v.n) \o <<" ">> \o Dec(v.ts) \o <<" ", " ">> \o Dump
    \o <<"I", "D", " ">> \o v.id \o <<" ">> \o TempText(v.temp) \o <<" ">> \o Dec(v.hum)
    \o <<"%", " ", " ", "s", "e", "q", " ">> \o v.seq
    \o <<" ", "l", "o", "w", "b", "a", "t", " ">> \o Dec(v.lowbat)
    \o <<" ", "R", "S", "S", "I", " ">> \o Dec(v.rssi)

\* the values telegrams are generated from
TelegramValues ==
    [n : {0}, ts : {1, 1485215350},
     id : {<<"6", "5", "b", "0">>, <<"1", "0", "0", "0">>, <<"0", "a", "9", "f">>},
     temp : {0 - 53, 0, 220}, hum : {0, 7, 35}, seq : {<<"e">>},
     lowbat : {0, 1}, rssi : {81}]

NoValues ==
    [n |-> 0, ts |-> 0, id |-> <<>>, temp |-> 0, hum |-> 0, seq |-> <<>>,
     lowbat |-> 0, rssi |-> 0]

\* a telegram whose humidity is written 00
TextHum00 ==
    <<"#", "1", " ", "1", "5", " ", " ", "2", "d", " ", "d", "4", " ", "6",
      "5", " ", " ", " ", " ", " ", " ", " ", " ", " ", " ", " ", "I", "D",
      " ", "6", "5", "b", "0", " ", "+", "2", "2", ".", "0", " ", "0", "0",
      "%", " ", " ", "s", "e", "q", " ", "e", " ", "l", "o", "w", "b", "a",
      "t", " ", "0", " ", "R", "S", "S", "I", " ", "8", "1">>

\* a telegram as readline returns it
TextNewline ==
    <<"#", "1", " ", "1", "5", " ", " ", "2", "d", " ", "d", "4", " ", "6",
      "5", " ", " ", " ", " ", " ", " ", " ", " ", " ", " ", " ", "I", "D",
      " ", "6", "5", "b", "0", " ", "+", "2", "2", ".", "0", " ", "3", "5",
      "%", " ", " ", "s", "e", "q", " ", "e", " ", "l", "o", "w", "b", "a",
      "t", " ", "0", " ", "R", "S", "S", "I", " ", "8", "1", "\n">>

\* a telegram after a space: the payload holds the IDENTIFIER, ^# does not
\* match
TextIndented ==
    <<" ", "#", "1", " ", "1", "5", " ", " ", "2", "d", " ", "d", "4", " ",
      "6", "5", " ", " ", " ", " ", " ", " ", " ", " ", " ", " ", " ", "I",
      "D", " ", "6", "5", "b", "0", " ", "+", "2", "2", ".", "0", " ", "3",
      "5", "%", " ", " ", "s", "e", "q", " ", "e", " ", "l", "o", "w", "b",
      "a", "t", " ", "0", " ", "R", "S", "S", "I", " ", "8", "1">>

\* a telegram whose id is in upper case
TextUpperId ==
    <<"#", "1", " ", "1", "5", " ", " ", "2", "d", " ", "d", "4", " ", "6",
      "5", " ", " ", " ", " ", " ", " ", " ", " ", " ", " ", " ", "I", "D",
      " ", "6", "5", "B", "0", " ", "+", "2", "2", ".", "0", " ", "3", "5",
      "%", " ", " ", "s", "e", "q", " ", "e", " ", "l", "o", "w", "b", "a",
      "t", " ", "0", " ", "R", "S", "S", "I", " ", "8", "1">>

\* a line TFA_2Packet.PATTERN matches
TextTFA2 ==
    <<"#", "1", " ", "1", "5", " ", " ", "2", "d", " ", "d", "4", " ", "6",
      "5", " ", " ", " ", " ", " ", " ", " ", " ", " ", " ", " ", "I", "D",
      " ", "1", "0", "0", "0", "9", "a", "4", "0", " ", "-", "1", "7", ".",
      "2", " ", "4", "7", " ", "1", "2", " ", "1", "2", " ", "R", "S", "S",
      "I", " ", "8", "3", " ", "O", "f", "f", "s", "e", "t", " ", "1", "1",
      "k", "H", "z">>

\* the sample of the comment of line 401 with ID 1000: the + of the
\* temperature is not in the class of group 5
TextTFA2Plus ==
    <<"#", "1", " ", "1", "5", " ", " ", "2", "d", " ", "d", "4", " ", "6",
      "5", " ", " ", " ", " ", " ", " ", " ", " ", " ", " ", " ", "I", "D",
      " ", "1", "0", "0", "0", "9", "9", "0", "0", " ", "+", "1", "7", ".",
      "2", " ", "4", "7", " ", "1", "2", " ", "1", "2", " ", "R", "S", "S",
      "I", " ", "8", "3", " ", "O", "f", "f", "s", "e", "t", " ", "1", "1",
      "k", "H", "z">>

\* a line TFA_3Packet.PATTERN matches
TextTFA3 ==
    <<"#", "1", " ", "1", "5", " ", " ", "2", "d", " ", "d", "4", " ", "6",
      "5", " ", " ", " ", " ", " ", " ", " ", " ", " ", " ", " ", "I", "D",
      " ", "2", "0", "0", "0", "9", "a", "4", "0", " ", "1", "7", ".", "2",
      " ", "4", "7", " ", "1", "2", " ", "1", "2", " ", "R", "S", "S", "I",
      " ", "8", "3", " ", "O", "f", "f", "s", "e", "t", " ", "1", "1", "k",
      "H", "z">>

\* ID 2000 and nothing that follows it
TextTFA3Bad ==
    <<"#", "1", " ", "1", "5", " ", " ", "2", "d", " ", "d", "4", " ", "6",
      "5", " ", " ", " ", " ", " ", " ", " ", " ", " ", " ", " ", "I", "D",
      " ", "2", "0", "0", "0">>

\* a line TFA_3Packet.PATTERN matches, in which ID 1000 occurs as well
TextTFA3And2 ==
    <<"#", "1", " ", "1", "5", " ", " ", "2", "d", " ", "d", "4", " ", "6",
      "5", " ", " ", " ", " ", " ", " ", " ", " ", " ", " ", " ", "I", "D",
      " ", "2", "0", "0", "0", "9", "a", "4", "0", " ", "1", "7", ".", "2",
      " ", "4", "7", " ", "1", "2", " ", "1", "2", " ", "R", "S", "S", "I",
      " ", "8", "3", " ", "O", "f", "f", "s", "e", "t", " ", "1", "1", "k",
      "H", "z", " ", "I", "D", " ", "1", "0", "0", "0">>

\* a line of a TX22 as the IDENTIFIER expects it
TextTX22 ==
    <<"#", "1", " ", "1", "5", " ", " ", "2", "d", " ", "d", "4", " ", "6",
      "5", " ", " ", " ", " ", " ", " ", " ", " ", " ", " ", " ", "I", "D",
      "3", "0", "0", "0", " ", "9", "a", "4", "0", " ", "7", ".", "2", " ",
      "4", "7", " ", "1", "2", " ", "1", "2", " ", "R", "S", "S", "I", " ",
      "8", "3", " ", "O", "f", "f", "s", "e", "t", " ", "1", "1", "k", "H",
      "z">>

\* a line TX22Packet.PATTERN matches: ID 3000, which is not the IDENTIFIER
TextTX22Spaced ==
    <<"#", "1", " ", "1", "5", " ", " ", "2", "d", " ", "d", "4", " ", "6",
      "5", " ", " ", "I", "D", " ", "3", "0", "0", "0", "9", "a", "4", "0",
      " ", "7", ".", "2", " ", "4", "7", " ", "1", "2", " ", "1", "2", " ",
      "R", "S", "S", "I", " ", "8", "3", " ", "O", "f", "f", "s", "e", "t",
      " ", "1", "1", "k", "H", "z">>

\* a line of a WeatherHub sensor after a run of 10 spaces
TextHub ==
    <<"#", "1", " ", "1", "5", " ", " ", "2", "d", " ", "d", "4", " ", "6",
      "5", " ", " ", " ", " ", " ", " ", " ", " ", " ", " ", "0", "b", "3",
      "d", "9", "d", "d", "e", "e", "a", "b", "c", "3", " ", "0", ".", "7",
      " ", "2", "7", "0", " ", "9", "5", "0", " ", "0", " ", "9", "2", " ",
      "0", " ", "1", "5", "2", "5", "9", "9", "6", "3", "0", "0">>

\* the sample of the comment of line 497, after a run of 10 spaces
TextHubPlus ==
    <<"#", "1", " ", "1", "5", " ", " ", "2", "d", " ", "d", "4", " ", "6",
      "5", " ", " ", " ", " ", " ", " ", " ", " ", " ", " ", "0", "b", "3",
      "d", "9", "d", "d", "e", "e", "a", "b", "c", "3", " ", "+", "0", ".",
      "7", " ", "2", "7", "0", " ", "9", "5", "0", " ", "0", " ", "9", "2",
      " ", "0", " ", "1", "5", "2", "5", "9", "9", "6", "3", "0", "0">>

\* a line WeatherHubPacket.PATTERN matches, in which the five characters of
\* the IDENTIFIER occur
TextHubLiteral ==
    <<"#", "1", " ", "1", "5", " ", " ", "2", "d", " ", "d", "4", " ", "6",
      "5", " ", "{", "1", "0", "}", " ", "0", "b", "3", "d", "9", "d", "d",
      "e", "e", "a", "b", "c", "3", " ", "0", ".", "7", " ", "2", "7", "0",
      " ", "9", "5", "0", " ", "0", " ", "9", "2", " ", "0", " ", "1", "5",
      "2", "5", "9", "9", "6", "3", "0", "0">>

\* the five characters of the IDENTIFIER and no sensor
TextHubLiteralBad ==
    <<"#", "1", " ", "1", "5", " ", " ", "2", "d", " ", "d", "4", " ", "6",
      "5", " ", "{", "1", "0", "}">>

\* a run of 10 spaces between two words
TextSpaces ==
    <<"g", "a", "i", "n", " ", " ", " ", " ", " ", " ", " ", " ", " ", " ",
      "a", "u", "t", "o">>

\* a banner of the decoder
TextBanner ==
    <<"F", "r", "e", "q", "u", "e", "n", "c", "y", " ", "8", "6", "8", "2",
      "5", "0", "k", "H", "z">>

\* spaces and a newline
TextBlank ==
    <<" ", " ", " ", "\n">>

\* other lines: one for each way a line passes or misses an IDENTIFIER and a
\* PATTERN
OtherTexts ==
    {TextHum00, TextNewline, TextIndented, TextUpperId, TextTFA2,
       TextTFA2Plus, TextTFA3, TextTFA3Bad, TextTFA3And2, TextTX22,
       TextTX22Spaced, TextHub, TextHubPlus, TextHubLiteral,
       TextHubLiteralBad, TextSpaces, TextBanner, TextBlank}

NoOutcome == Outcome(FALSE, FALSE, TRUE, EmptyDict, FALSE)

InitText ==
    /\ sensor_map = NoMap /\ deltas = DEFAULT_DELTAS
    /\ log_unknown = FALSE /\ log_unmapped = FALSE
    /\ Constructed
    /\ fm = NoCall /\ rd = NoReader
    /\ \/ \E v \in TelegramValues :
            tx = [text |-> TelegramText(v), gen |-> TRUE, vals |-> v,
                  done |-> FALSE, fmt |-> "none", o |-> NoOutcome]
       \/ \E t \in OtherTexts \cup {<<>>} :
            tx = [text |-> t, gen |-> FALSE, vals |-> NoValues,
                  done |-> FALSE, fmt |-> "none", o |-> NoOutcome]

\* pkt = PacketFactory.parse_text(lines) with lines = [tx.text]; fmt is the
\* parser the loop over KNOWN_PACKETS stops at
ParseText ==
    /\ ~tx.done
    /\ \E l \in {LineOf(tx.text)} :
         tx' = [tx EXCEPT !.done = TRUE, !.fmt = FirstParser(l, 1),
                          !.o = PacketFactory_parse_text(l)]
    /\ UNCHANGED <<cfg, proc, stdout_queue, drv, fm, rd>>

NextText == ParseText

SpecText == InitText /\ [][NextText]_vars

\* ------------------------------------------------------------------ one line through the loop

\* temp3 = *.*.*: every qualified key is routed
AnyMap == [n \in {temp3} |-> Pat(<<"*">>, <<"*">>, <<"*">>)]

\* the first line the decoder writes, as text: a line for each way into a
\* parser that stores nothing (PATTERN matched, PATTERN refused, call raising)
\* and a line in which no IDENTIFIER occurs
FirstLines ==
    {LineOf(t) : t \in {TextTFA2, TextTFA3Bad, TextTX22, TextHubLiteral, TextBanner}}

\* TFRCDriver.__init__ has run with log_unknown_sensors set either way, the
\* decoder has written its first line and AsyncReader.run has put it in the
\* queue; genLoopPackets has not run
InitLine ==
    /\ sensor_map \in {TempMap, AnyMap}
    /\ deltas = DEFAULT_DELTAS
    /\ log_unknown \in BOOLEAN
    /\ log_unmapped = FALSE
    /\ alive = TRUE
    /\ startups = 1
    /\ written = 1
    /\ \E l \in FirstLines : stdout_queue = <<l>>
    /\ pc = "loop"
    /\ resume = "end"
    /\ lines = <<>>
    /\ line = LineEmpty
    /\ elapsed = 0
    /\ block = <<>>
    /\ last_pkt = None
    /\ counter_values = EmptyDict
    /\ out = <<>>
    /\ src = <<>>
    /\ calls = <<>>
    /\ mapped = <<>>
    /\ len0 = 0
    /\ parsed = 0
    /\ logged = <<>>
    /\ observed = <<>>
    /\ taken = <<>>
    /\ emitted = <<>>
    /\ fm = NoCall
    /\ tx = NoText
    /\ rd = NoReader

SpecLine == InitLine /\ [][Next]_vars

\* ------------------------------------------------------------------ the two log flags

\* humidity3 = humidity.65B0.TFA_1Packet: a telegram whose humidity is "0"
\* holds no such key and maps to an empty record
HumMap ==
    [n \in {humidity3} |-> Qualified(humidity, SensorId, TFA_1Packet_name)]

\* TFRCDriver.__init__ has run with log_unknown_sensors and
\* log_unmapped_sensors set either way
InitFlags ==
    /\ sensor_map = HumMap
    /\ deltas = DEFAULT_DELTAS
    /\ log_unknown \in BOOLEAN
    /\ log_unmapped \in BOOLEAN
    /\ Constructed
    /\ fm = NoCall
    /\ tx = NoText
    /\ rd = NoReader

SpecFlags == InitFlags /\ [][Next]_vars

\* ------------------------------------------------------------------ AsyncReader

(***************************************************************************)
(* The thread of the stdout reader and the thread that calls shutdown.  rd *)
(* holds where the reader stands (pc: unstarted, started, at readline, at  *)
(* the test of _running, done), its _running, whether stop_running() was   *)
(* called and how many lines were put in the queue after it.               *)
(***************************************************************************)
InitReader ==
    /\ sensor_map = NoMap /\ deltas = DEFAULT_DELTAS
    /\ log_unknown = FALSE /\ log_unmapped = FALSE
    /\ Constructed
    /\ fm = NoCall /\ tx = NoText
    /\ rd = NoReader

\* ProcManager.startup: self.stdout_reader.start()
start ==
    /\ rd.pc = "unstarted"
    /\ rd' = [rd EXCEPT !.pc = "started"]
    /\ UNCHANGED <<cfg, proc, stdout_queue, drv, fm, tx>>

\* AsyncReader.run: self._running = True
run ==
    /\ rd.pc = "started"
    /\ rd' = [rd EXCEPT !.pc = "readline", !.running = TRUE]
    /\ UNCHANGED <<cfg, proc, stdout_queue, drv, fm, tx>>

\* AsyncReader.run: readline returns a line the decoder wrote, queue.put(line)
put ==
    /\ rd.pc = "readline"
    /\ alive
    /\ written < MaxLines
    /\ \E l \in Lines : stdout_queue' = Append(stdout_queue, l)
    /\ written' = written + 1
    /\ rd' = [rd EXCEPT !.pc = "test",
                        !.after = IF rd.stopped THEN rd.after + 1 ELSE rd.after]
    /\ UNCHANGED <<cfg, alive, startups, drv, fm, tx>>

\* AsyncReader.run: if not self._running: break
test ==
    /\ rd.pc = "test"
    /\ rd' = [rd EXCEPT !.pc = IF rd.running THEN "readline" ELSE "done"]
    /\ UNCHANGED <<cfg, proc, stdout_queue, drv, fm, tx>>

\* AsyncReader.run: the decoder is gone, readline returns '' and iter() ends
eof ==
    /\ rd.pc = "readline"
    /\ ~alive
    /\ rd' = [rd EXCEPT !.pc = "done"]
    /\ UNCHANGED <<cfg, proc, stdout_queue, drv, fm, tx>>

\* ProcManager.shutdown: self.stdout_reader.stop_running()
stop_running ==
    /\ rd.pc # "unstarted"
    /\ ~rd.stopped
    /\ rd' = [rd EXCEPT !.running = FALSE, !.stopped = TRUE]
    /\ UNCHANGED <<cfg, proc, stdout_queue, drv, fm, tx>>

NextReader ==
    \/ start
    \/ run
    \/ put
    \/ test
    \/ eof
    \/ stop_running
    \/ ProcExit

SpecReader == InitReader /\ [][NextReader]_vars

\* ------------------------------------------------------------------ properties

\* the yielded records that carry the field named label, in order
Carrying(label) == SelectSeq(out, LAMBDA r : label \in DOMAIN r)

\* the totals of the counter label do not decrease along s
Monotone(s, label) ==
    \A i \in 1..(Len(s) - 1) : Val(s[i][label]) <= Val(s[i + 1][label])

\* the deltas of the records after the first, added up
RECURSIVE SumDeltas(_, _, _)
SumDeltas(s, k, i) ==
    IF i > Len(s) THEN 0 ELSE Val(s[i][k]) + SumDeltas(s, k, i + 1)

\* C1: genLoopPackets never yields two consecutive records that are identical
C1_NoConsecutiveDuplicates ==
    \A i \in 1..(Len(out) - 1) : out[i] # out[i + 1]

\* C2: every yielded record holds dateTime and usUnits with the values of the
\* observation it was mapped from; map_to_fields adds the two exactly when a
\* field was routed and returns an empty record otherwise
C2_StampsOfSource ==
    /\ \A i \in 1..Len(out) :
         /\ {dateTime, usUnits} \subseteq DOMAIN out[i]
         /\ out[i][dateTime] = src[i][dateTime]
         /\ out[i][usUnits] = src[i][usUnits]
    /\ \A i \in 1..Len(mapped) :
         LET routed == \E n \in DOMAIN sensor_map :
                          n \in DOMAIN mapped[i].packet
                          /\ \E k \in DOMAIN mapped[i].pkt :
                                mapped[i].packet[n] = mapped[i].pkt[k]
         IN  /\ routed <=> dateTime \in DOMAIN mapped[i].packet
             /\ routed <=> usUnits \in DOMAIN mapped[i].packet
             /\ ~routed => mapped[i].packet = EmptyDict

C2_Witness ==
    /\ sensor_map = TempMap
    /\ Len(out) >= 2
    /\ out[1][dateTime] # out[2][dateTime]

\* what C3 takes a 3-part pattern to select: a 3-part key each part of which
\* the matching pattern part globs
Glob3(pattern, k) ==
    LET pparts == split(pattern)
        kparts == split(k)
    IN  /\ Len(kparts) = 3
        /\ \A i \in 1..3 : fnmatch(pparts[i], kparts[i])

C4_DeltaIsDifference ==
    \A k \in DOMAIN deltas :
        LET label == deltas[k]
            s     == Carrying(label)
        IN  Monotone(s, label) =>
              /\ \A i \in 2..Len(s) :
                    s[i][k] = Num(Val(s[i][label]) - Val(s[i - 1][label]))
              /\ Len(s) >= 1 =>
                    SumDeltas(s, k, 2) = Val(s[Len(s)][label]) - Val(s[1][label])

C4_Witness ==
    /\ deltas = DEFAULT_DELTAS
    /\ Len(Carrying(rain_total)) = 3
    /\ Monotone(Carrying(rain_total), rain_total)
    /\ out[2][rain] = Num(0)
    /\ out[3][rain] = Num(1)

\* C5: after each record carrying a counter of the delta spec the stored
\* baseline is that record's total; a decrease gives no numeric delta and the
\* delta after it is taken against the decreased total
C5_BaselineIsLastTotal ==
    /\ \A i \in 1..Len(calls) : calls[i].base = calls[i].total
    /\ \A k \in DOMAIN deltas :
        LET label == deltas[k]
            s     == Carrying(label)
        IN  s # <<>> =>
              /\ Get(counter_values, label) = s[Len(s)][label]
              /\ \A i \in 2..Len(s) :
                    Val(s[i][label]) < Val(s[i - 1][label]) =>
                      /\ s[i][k] = None
                      /\ (i < Len(s) /\ Val(s[i + 1][label]) >= Val(s[i][label])) =>
                            s[i + 1][k] = Num(Val(s[i + 1][label]) - Val(s[i][label]))

C5_Witness ==
    /\ deltas = DEFAULT_DELTAS
    /\ Len(Carrying(rain_total)) = 3
    /\ out[1][rain_total] = Num(2)
    /\ out[2][rain_total] = Num(1) /\ out[2][rain] = None
    /\ out[3][rain_total] = Num(2) /\ out[3][rain] = Num(1)
    /\ pc # "crashed"

\* C6: PacketFactory.parse_text raises for no line, so no line ends the
\* stream of records with an exception
C6_ParseNeverRaises == pc # "crashed"

\* C7: every call of PacketFactory.parse_text removes the first line of the
\* block and leaves the rest as it was
C7_ParsePopsFirstLine ==
    [][parsed' = parsed + 1 => block' = Tail(block)]_vars

\* C8: once the decoder has exited, the driver raises WeeWxIOError
C8_ExitLeadsToFatal == (~alive) ~> (pc = "fatal")

\* C9: once WeeWxIOError is raised no record is yielded any more, and the
\* decoder is never started again
C9_FatalIsAbsorbing ==
    [][/\ startups' = startups
       /\ pc = "fatal" => (pc' = "fatal" /\ out' = out)]_vars

C9_Witness ==
    /\ pc = "fatal"
    /\ out # <<>>
    /\ stdout_queue # <<>>

\* C10: with an empty sensor_map no record is ever yielded
C10_EmptyMapYieldsNothing == sensor_map = NoMap => out = <<>>

C10_Witness ==
    /\ sensor_map = NoMap
    /\ mapped # <<>>
    /\ mapped[1].pkt = ObsA
    /\ mapped[1].packet = EmptyDict

\* the key of the field n of the sensor whose id the telegram prints as id
FieldKey(n, id) == Qualified(n, upper(id), TFA_1Packet_name)

\* the observation C12 expects of the telegram generated from v, the sequence
\* number left aside
Expected(v) ==
    LET names == {temperature, lowbat, rssi}
                 \cup (IF v.hum # 0 THEN {humidity} ELSE {})
        value(n) == CASE n = temperature -> v.temp
                      [] n = humidity    -> v.hum
                      [] n = lowbat      -> v.lowbat
                      [] n = rssi        -> v.rssi
    IN  [k \in {dateTime, usUnits} \cup {FieldKey(n, v.id) : n \in names} |->
            IF k = dateTime THEN Num(v.ts)
            ELSE IF k = usUnits THEN Num(METRIC)
            ELSE Num(value(CHOOSE n \in names : FieldKey(n, v.id) = k))]

\* C12 as stated: parsing a generated telegram recovers timestamp, id,
\* temperature, humidity unless zero, lowbat, rssi, and the sequence number too,
\* in a field of the observation beside those
C12_RecoversAllValues ==
    (tx.done /\ tx.gen) =>
        /\ ~tx.o.raised /\ ~tx.o.none
        /\ \A k \in DOMAIN Expected(tx.vals) :
              k \in DOMAIN tx.o.pkt /\ tx.o.pkt[k] = Expected(tx.vals)[k]
        /\ DOMAIN tx.o.pkt \ DOMAIN Expected(tx.vals) # {}

\* C12 amended: parsing a generated telegram gives exactly dateTime = timestamp,
\* usUnits, and temperature, lowbat, rssi and (unless zero) humidity under keys
\* qualified by the upper-cased id; the sequence number is in no field
C12_RecoversAllButSeq ==
    (tx.done /\ tx.gen) =>
        /\ ~tx.o.raised /\ ~tx.o.none /\ tx.o.popped
        /\ tx.o.pkt = Expected(tx.vals)

C12_Witness ==
    /\ tx.done /\ tx.gen
    /\ tx.vals.temp < 0 /\ tx.vals.hum = 0 /\ tx.vals.ts > 1
    /\ tx.vals.id = <<"0", "a", "9", "f">>
    /\ FieldKey(temperature, <<"0", "a", "9", "f">>) \in DOMAIN tx.o.pkt
    /\ FieldKey(humidity, <<"0", "a", "9", "f">>) \notin DOMAIN tx.o.pkt

\* C13: the observation parsed from a line TFA_1Packet.PATTERN matches never
\* holds a humidity field whose value is zero
C13_NoZeroHumidity ==
    (tx.done /\ tx.fmt = "TFA_1Packet" /\ re_search(TFA_1Packet_PATTERN, tx.text)) =>
        \A k \in DOMAIN tx.o.pkt :
            split(k)[1] = humidity => tx.o.pkt[k] # Num(0)

\* the registered formats whose IDENTIFIER occurs in the payload, by position
Occurring(payload) ==
    {i \in 1..Len(KNOWN_PACKETS) : find(payload, IDENTIFIER(KNOWN_PACKETS[i]))}

\* C18: a line is handed to the first format, in the order TFA_1, TFA_2, TFA_3,
\* TX22, WeatherHub, whose IDENTIFIER occurs in the stripped line, and to no
\* other: when that format's PATTERN does not match, the result is an empty
\* observation whatever the PATTERN of a later format would match
C18_FirstDiscriminatorDecides ==
    tx.done =>
        LET present == Occurring(strip(tx.text)) IN
        /\ KNOWN_PACKETS = <<"TFA_1Packet", "TFA_2Packet", "TFA_3Packet",
                             "TX22Packet", "WeatherHubPacket">>
        /\ present = {} => (tx.fmt = "none" /\ tx.o.none /\ tx.o.popped)
        /\ present # {} =>
             LET first == CHOOSE i \in present : \A j \in present : i <= j IN
             /\ tx.fmt = KNOWN_PACKETS[first]
             /\ tx.fmt # "TX22Packet" =>
                  /\ ~tx.o.raised /\ ~tx.o.none /\ tx.o.popped
                  /\ tx.o.pkt # EmptyDict =>
                        (tx.fmt = "TFA_1Packet" /\ re_search(PATTERN(tx.fmt), tx.text))
                  /\ ~re_search(PATTERN(tx.fmt), tx.text) =>
                        (tx.o.pkt = EmptyDict /\ tx.o.info)

C18_Witness ==
    /\ tx.done
    /\ tx.text = TextTFA3And2
    /\ tx.fmt = "TFA_2Packet"
    /\ re_search(PATTERN("TFA_3Packet"), tx.text)
    /\ tx.o.pkt = EmptyDict

\* C19: a non-empty line that holds a run of 10 spaces and the IDENTIFIER of
\* none of TFA_1, TFA_2, TFA_3, TX22 is handed to WeatherHubPacket
C19_TenSpacesIsWeatherHub ==
    (/\ tx.done
     /\ find(strip(tx.text), Sp(10))
     /\ Occurring(strip(tx.text)) \cap 1..4 = {}) => tx.fmt = "WeatherHubPacket"

\* a turn of create is taken on the first line of block
Turn == pc = "create" /\ block # <<>> /\ parsed' = parsed + 1

\* C11: for a non-empty line in which no IDENTIFIER occurs, the turn of the
\* loop that consumes it logs "missed (unparsed)" at info level when
\* log_unknown_sensors is set, and logs nothing when it is not
C11_UnknownReportedIffEnabled ==
    [][(/\ Turn
        /\ ~Head(block).blank
        /\ FirstParser(Head(block), 1) = "none") =>
            IF log_unknown THEN loginf("missed (unparsed)") \in Range(logged')
            ELSE logged' = <<>>]_vars

\* the formats whose parse_text stores no field
Stubs == {"TFA_2Packet", "TFA_3Packet", "TX22Packet", "WeatherHubPacket"}

\* C20: a turn of the loop on a line handed to TFA_2, TFA_3, TX22 or WeatherHub
\* gets a dict without any key whether the PATTERN matches or not, does not
\* call map_to_fields and yields no record, under every sensor_map
C20_StubYieldsNothing ==
    [][(Turn /\ FirstParser(Head(block), 1) \in Stubs) =>
          /\ PacketFactory_parse_text(Head(block)).pkt = EmptyDict
          /\ out' = out
          /\ mapped' = mapped
          /\ last_pkt' = last_pkt]_vars

C20_Witness ==
    /\ sensor_map = AnyMap
    /\ taken = <<LineOf(TextTFA2)>>
    /\ "TFA_2Packet" \in taken[1].pat
    /\ emitted = taken
    /\ pc = "create" /\ block = <<>> /\ parsed = 1
    /\ out = <<>>
    /\ mapped = <<>>

\* C14: get_stdout, taking line l from the queue, yields the accumulator and
\* keeps l for the next one when l holds the 10-space marker and the
\* accumulator is not empty, and appends l to the accumulator otherwise; the
\* accumulator after that yield is l alone; so no line of a yielded list but
\* its first holds the marker
C14_FramingRule ==
    [][/\ (pc = "poll" /\ taken' # taken) =>
            LET l == Head(stdout_queue) IN
            /\ taken' = Append(taken, l)
            /\ IF l.ts10 /\ lines # <<>>
               THEN /\ pc' = "create" /\ block' = lines
                    /\ emitted' = emitted \o lines
                    /\ resume' = "append" /\ line' = l
               ELSE /\ pc' = "poll" /\ lines' = Append(lines, l)
                    /\ emitted' = emitted
       /\ (pc = "create" /\ pc' = "poll" /\ resume = "append") => lines' = <<line>>
       /\ (pc = "poll" /\ pc' = "create") =>
            \A i \in 2..Len(block') : ~block'[i].ts10]_vars

C14_Witness ==
    /\ pc = "create" /\ resume = "append"
    /\ parsed = 0 /\ Len(block) = 2
    /\ block[1].ts10 /\ ~block[2].ts10 /\ ~block[2].blank
    /\ line.ts10
    /\ taken = block \o <<line>>

\* the lines get_stdout holds and has not yielded: lines, or while the yielded
\* list is with the caller, the line that will start the next one
Pending ==
    IF pc \in {"create", "crashed"}
    THEN IF resume = "append" THEN <<line>> ELSE <<>>
    ELSE lines

C16_TakenEventuallyEmitted ==
    \A n \in 1..MaxLines : (Len(taken) >= n) ~> (Len(emitted) >= n)

\* C17: once stop_running() has been called the reader puts at most one more
\* line in the queue, whenever the call comes after the start of the thread
C17_AtMostOneLineAfterStop ==
    rd.stopped => rd.after <= 1

\* the pattern has fewer than 3 parts and is not a key of the list
Short == Len(split(fm.pattern)) < 3 /\ fm.pattern \notin Range(fm.keylist)

\* C21 as stated: a pattern of fewer than 3 parts that is not itself a key
\* selects the key equal to its first part when the list holds one
C21_ShortPatternFallsBack ==
    (fm.done /\ Short /\ split(fm.pattern)[1] \in Range(fm.keylist)) =>
        fm.match = split(fm.pattern)[1]

\* C21 amended: a pattern of fewer than 3 parts that is not itself a key
\* selects nothing, whether or not its first part is a key of the list
C21_ShortPatternSelectsNothing ==
    (fm.done /\ Short) => fm.match = None

C21_Witness ==
    /\ fm.done
    /\ fm.pattern = dateTime \o <<".">> \o <<"x">>
    /\ dateTime \in Range(fm.keylist)
    /\ fm.match = None

\* C22: no field of a record genLoopPackets has yielded holds None
C22_NoNullField ==
    \A i \in 1..Len(out) : \A k \in DOMAIN out[i] : ~IsNone(out[i][k])

\* the record yielded last, None before the first
LastYielded == IF out = <<>> THEN None ELSE out[Len(out)]

\* C23: _last_pkt is the record yielded last and nothing else changes it,
\* whatever list or poll cycle ends in between; a turn of the loop whose
\* observation maps to a non-empty record yields nothing exactly when that
\* record equals the one yielded last, and otherwise yields it (with its
\* deltas), whatever was yielded before the last
C23_SingleSlotMemory ==
    [][/\ last_pkt' = LastYielded'
       /\ ~Turn => (last_pkt' = last_pkt /\ out' = out)
       /\ Turn =>
            LET o == PacketFactory_parse_text(Head(block)) IN
            (~o.raised /\ ~o.none /\ o.pkt # EmptyDict /\ pc' # "crashed") =>
                /\ mapped' # <<>> /\ mapped'[1].pkt = o.pkt
                /\ LET packet == mapped'[1].packet IN
                   IF packet = EmptyDict \/ packet = LastYielded
                   THEN out' = out /\ last_pkt' = last_pkt
                   ELSE /\ Len(out') = Len(out) + 1
                        /\ SubSeq(out', 1, Len(out)) = out
                        /\ \A k \in DOMAIN packet :
                              k \in DOMAIN LastYielded' /\ LastYielded'[k] = packet[k]]_vars

C23_Witness ==
    /\ Len(out) = 3
    /\ out[1] # out[2]
    /\ out[1] = out[3]
    /\ last_pkt = out[3]
    /\ pc = "poll" /\ elapsed = 0

\* C24: a turn of the loop logs "unmapped" exactly when log_unmapped_sensors
\* is set and a non-empty observation was mapped to an empty record; an empty
\* mapped record is neither logged as "missed (unparsed)" nor yielded; a turn
\* with no observation or an empty one does not log "unmapped"
C24_UnmappedIffEnabledAndEmptyRouting ==
    [][Turn =>
         LET o       == PacketFactory_parse_text(Head(block))
             obs     == ~o.raised /\ ~o.none /\ o.pkt # EmptyDict
             nothing == obs /\ mapped' # <<>> /\ mapped'[1].pkt = o.pkt
                            /\ mapped'[1].packet = EmptyDict
         IN  /\ obs => (mapped' # <<>> /\ mapped'[1].pkt = o.pkt)
             /\ loginf("unmapped") \in Range(logged') <=> (log_unmapped /\ nothing)
             /\ nothing => /\ loginf("missed (unparsed)") \notin Range(logged')
                           /\ out' = out
                           /\ last_pkt' = last_pkt]_vars

C24_Witness ==
    /\ sensor_map = HumMap
    /\ log_unmapped /\ ~log_unknown
    /\ pc = "create" /\ parsed = 1
    /\ taken = <<LineA, LineB>>
    /\ out # <<>>
    /\ mapped # <<>> /\ mapped[1].pkt = ObsB /\ mapped[1].packet = EmptyDict
    /\ logged = <<loginf("unmapped")>>

\* C25: with log_unknown_sensors not set, a turn of the loop on a line that
\* holds the IDENTIFIER of a format and does not match its PATTERN logs
\* nothing at info level
C25_RefusedLineSilentWhenDisabled ==
    [][(/\ Turn
        /\ ~log_unknown
        /\ FirstParser(Head(block), 1) \notin {"none", "TX22Packet"}
        /\ FirstParser(Head(block), 1) \notin Head(block).pat) =>
            \A e \in Range(logged') : e.level # "info"]_vars

\* the dicts got by parsing each line of ls on its own, in order: None is
\* left out as PacketFactory.create leaves it out
RECURSIVE EachOnItsOwn(_)
EachOnItsOwn(ls) ==
    IF ls = <<>> THEN <<>>
    ELSE LET o == PacketFactory_parse_text(Head(ls)) IN
         (IF o.raised \/ o.none THEN <<>> ELSE <<o.pkt>>) \o EachOnItsOwn(Tail(ls))

\* the lines create has consumed: those of the yielded lists but the rest of
\* the last, in the order of their arrival
Consumed == SubSeq(taken, 1, Len(emitted) - Len(block))

\* C26: the dicts PacketFactory.create has yielded over the lists of get_stdout
\* are those of parsing, each on its own and in the order of arrival, the
\* lines consumed so far, however get_stdout cut the lines into lists
C26_ObservationsIgnoreFraming ==
    /\ Len(block) <= Len(emitted)
    /\ observed = EachOnItsOwn(Consumed)

C26_Witness ==
    /\ Len(observed) = 2
    /\ observed[1] # observed[2]
    /\ Len(taken) = 3 /\ emitted = taken
    /\ ~taken[2].ts10
    /\ taken[3].ts10
    /\ block = <<>>
    /\ pc = "create" /\ resume = "end"

\* C27: when genLoopPackets raises because the decoder is gone, every line the
\* reader had put in the queue has been taken from it, yielded in a list and
\* consumed by create
C27_QueueDrainedBeforeFatal ==
    pc = "fatal" =>
        /\ stdout_queue = <<>>
        /\ Len(taken) = written
        /\ emitted = taken
        /\ block = <<>>

====
